---- MODULE Spec2Model ----
(***************************************************************************)
(* ViewNudger/api.py: parseArgs validates its arguments and calls nudge,   *)
(* which projects a transform to the screen, solves two pixel offsets back *)
(* to world space and moves the object or the camera inside an undo chunk. *)
(*                                                                         *)
(* Floating point is modelled as fixed point: world coordinates and pixel  *)
(* coordinates carry Scale units per 1.0, unit vectors, normalised device  *)
(* coordinates and cosines carry Unit units per 1.0, angles are degrees    *)
(* quantised to AngleStep.  The camera looks down -z (the host default),   *)
(* so the view matrix is the translation by -eye and the projection is a   *)
(* perspective matrix with x/y scales fx, fy.                              *)
(***************************************************************************)
EXTENDS Integers, Sequences, FiniteSets, TLC

\* ---------------------------------------------------------------- bounds
MaxCalls == 1
MaxViewChanges == 1

\* ------------------------------------------------------ number modelling
Scale == 100
Unit == 1000
AngleStep == 5
DepthEps == 1                     \* 0.01 in Scale units
Tol == Scale \div 10              \* comparison tolerance, 0.1

\* a / b rounded to nearest, b > 0
RDiv(a, b) == (2 * a + b) \div (2 * b)

Abs(a) == IF a < 0 THEN -a ELSE a

RECURSIVE SqrtIter(_, _)
SqrtIter(n, r) ==
    LET r2 == (r + n \div r) \div 2
    IN  IF r2 >= r THEN r ELSE SqrtIter(n, r2)

ISqrt(n) == IF n <= 0 THEN 0 ELSE SqrtIter(n, n)

\* MPoint / MVector arithmetic
VSub(a, b) == <<a[1] - b[1], a[2] - b[2], a[3] - b[3]>>
VAdd(a, b) == <<a[1] + b[1], a[2] + b[2], a[3] + b[3]>>
Dot(a, b) == a[1] * b[1] + a[2] * b[2] + a[3] * b[3]
VLength(a) == ISqrt(Dot(a, a))

\* MVector.normalize(): a zero-length vector is left unchanged
Normalize(a) ==
    LET len == VLength(a)
    IN  IF len = 0 THEN a
        ELSE <<RDiv(a[1] * Unit, len), RDiv(a[2] * Unit, len), RDiv(a[3] * Unit, len)>>

\* cosine of 0, 5, ..., 180 degrees in Unit units
CosTable ==
    <<1000, 996, 985, 966, 940, 906, 866, 819, 766, 707, 643, 574, 500,
      423, 342, 259, 174, 87, 0, -87, -174, -259, -342, -423, -500, -574,
      -643, -707, -766, -819, -866, -906, -940, -966, -985, -996, -1000>>

\* math.degrees(u.angle(v)) for normalised u, v: arccos of the dot product,
\* in [0, 180], quantised to AngleStep
AngleDeg(u, v) ==
    LET c == RDiv(Dot(u, v), Unit)
        k == CHOOSE i \in DOMAIN CosTable :
                 \A j \in DOMAIN CosTable :
                     \/ Abs(CosTable[i] - c) < Abs(CosTable[j] - c)
                     \/ (Abs(CosTable[i] - c) = Abs(CosTable[j] - c) /\ i <= j)
    IN  AngleStep * (k - 1)

\* ------------------------------------------------------------ host scene
CameraName == "persp"
TargetName == "pSphere1"
SceneNodes == {"pSphere1", "pSphereShape1", "persp"}
ModelPanels == {"modelPanel1", "modelPanel4"}
ActivePanel == "modelPanel4"

objExists(name) == name \in SceneNodes
nodeType(name) == IF name = "pSphereShape1" THEN "mesh" ELSE "transform"

TransformNames == {"", "missing", "pSphereShape1", "pSphere1"}
ViewArgs ==
    { [type |-> "NoneType", val |-> ""],
      [type |-> "str", val |-> ""],
      [type |-> "str", val |-> "modelPanel1"],
      [type |-> "str", val |-> "outlinerPanel1"],
      [type |-> "M3dView", val |-> "modelPanel1"] }
PixelAmounts == { <<0, 0>>, <<20, -10>>, <<-15, 10>> }

ViewStates ==
    { [width |-> 100, height |-> 100, fx |-> 1, fy |-> 1],
      [width |-> 200, height |-> 100, fx |-> 1, fy |-> 2] }
CameraPoints == { <<0, 0, 1000>> }
TargetPoints == { <<0, 0, 0>>, <<100, 50, 0>>, <<-200, 100, -300>>, <<0, 0, 2000>> }
LockSets == { {}, {<<"pSphere1", "t">>}, {<<"persp", "t">>}, {<<"persp", "r">>} }

Unset == <<>>
NoArgs == [transformName |-> "", pixelAmount |-> <<0, 0>>, moveObject |-> FALSE,
           rotateView |-> FALSE, view |-> [type |-> "NoneType", val |-> ""]]
NoLocals == [cameraPoint |-> Unset, transformPoint |-> Unset, startDirVec |-> Unset,
             pointDist |-> 0, xy |-> [ok |-> FALSE, x |-> 0, y |-> 0], xyz_x |-> Unset, xyz_y |-> Unset,
             offsetX |-> Unset, offsetY |-> Unset]

ParseErrors == {"No transformName supplied.", "does not exist or isn't a transform",
                "is not a model panel or view", "is not a view"}

VARIABLES
    pos,          \* host: world position of each transform node
    camRot,       \* host: accumulated object-space rotation of the camera
    views,        \* host: live state of each model panel's viewport
    locked,       \* host: locked attributes, on which move/rotate raise
    chunkDepth,   \* host: number of undo chunks opened and not closed
    pc,           \* position of the running call
    args,         \* arguments of the running call
    view,         \* the view handle nudge was called with
    nudgeCalled,  \* parseArgs reached its call of nudge
    loc,          \* nudge's locals
    trace,        \* host commands issued by the running call, in order
    viewReads,    \* viewport states the geometric computations read
    err,          \* the exception that ended the call, or "none"
    calls,        \* calls made so far
    viewChanges   \* viewport changes so far

vars == <<pos, camRot, views, locked, chunkDepth, pc, args, view, nudgeCalled,
          loc, trace, viewReads, err, calls, viewChanges>>
hostVars == <<pos, camRot, views, locked, chunkDepth>>

Cmd(op, node, v, mode) == [op |-> op, node |-> node, v |-> v, mode |-> mode]

Init ==
    /\ pos \in { [n \in SceneNodes |->
                    IF n = CameraName THEN c ELSE t] :
                 c \in CameraPoints, t \in TargetPoints }
    /\ camRot = <<0, 0, 0>>
    /\ views \in [ModelPanels -> ViewStates]
    /\ locked \in LockSets
    /\ chunkDepth = 0
    /\ pc = "idle"
    /\ args = NoArgs
    /\ view = ""
    /\ nudgeCalled = FALSE
    /\ loc = NoLocals
    /\ trace = <<>>
    /\ viewReads = <<>>
    /\ err = "none"
    /\ calls = 0
    /\ viewChanges = 0

\* ------------------------------------------------------------ projection
\* fnCamera.viewDirection(kWorld) of the unrotated camera
cameraDir == <<0, 0, -1>>

\* point * (viewMatrix * projectionMatrix): clip x, y and w.  Clip z is an
\* affine image of the eye depth and is carried as w.
ViewProject(p, eye, vs) ==
    LET e == VSub(p, eye)
    IN  [x |-> e[1] * vs.fx, y |-> e[2] * vs.fy, w |-> -e[3]]

worldToScreen(cameraPoint, transformPoint, eye, vs) ==
    LET pointDir == VSub(transformPoint, cameraPoint)
        z == Dot(pointDir, cameraDir)
        point3D == ViewProject(transformPoint, eye, vs)
    IN  IF z < DepthEps
        THEN [ok |-> FALSE, x |-> 0, y |-> 0]
        ELSE [ok |-> TRUE,
              x |-> RDiv((RDiv(point3D.x * Unit, point3D.w) + Unit) * vs.width * Scale,
                         2 * Unit),
              y |-> RDiv((RDiv(point3D.y * Unit, point3D.w) + Unit) * vs.height * Scale,
                         2 * Unit)]

\* point2D is in Scale units of a pixel.  eye is the position the view
\* matrix was built from; row 3 of the view-projection matrix is the clip
\* image of the world origin.
screenToWorld(point2D, cameraPoint, setDistance, eye, vs) ==
    LET nx == RDiv(2 * point2D[1] * Unit, vs.width * Scale) - Unit
        ny == RDiv(2 * point2D[2] * Unit, vs.height * Scale) - Unit
        w == ViewProject(<<0, 0, 0>>, eye, vs).w
        cx == RDiv(nx * w, Unit)
        cy == RDiv(ny * w, Unit)
        \* point3D *= viewProjectionMatrix.inverse()
        point3D == <<RDiv(cx, vs.fx) + eye[1], RDiv(cy, vs.fy) + eye[2], eye[3] - w>>
        directionVec == Normalize(VSub(point3D, cameraPoint))
    IN  <<RDiv(directionVec[1] * setDistance, Unit) + cameraPoint[1],
          RDiv(directionVec[2] * setDistance, Unit) + cameraPoint[2],
          RDiv(directionVec[3] * setDistance, Unit) + cameraPoint[3]>>

\* -------------------------------------------------------------- parseArgs
ValidTransformMut(name) == objExists(name)

ValidTransform(name) == objExists(name) /\ nodeType(name) = "transform"

\* the error parseArgs raises for these arguments, or "none"
parseArgsError(a) ==
    IF a.transformName = "" THEN "No transformName supplied."
    ELSE IF ~ValidTransform(a.transformName)
         THEN "does not exist or isn't a transform"
    ELSE IF a.view.type = "NoneType" \/ (a.view.type = "str" /\ a.view.val = "")
         THEN "none"
    ELSE IF a.view.type # "M3dView" /\ a.view.type = "str"
         THEN IF a.view.val \in ModelPanels THEN "none"
              ELSE "is not a model panel or view"
    ELSE "is not a view"

\* the view parseArgs passes to nudge
parseArgsView(a) ==
    IF a.view.type = "NoneType" \/ (a.view.type = "str" /\ a.view.val = "")
    THEN ActivePanel
    ELSE a.view.val

ParseArgs ==
    /\ pc = "idle"
    /\ calls < MaxCalls
    /\ camRot = <<0, 0, 0>>
    /\ \E tn \in TransformNames, pa \in PixelAmounts, mo \in BOOLEAN,
          rv \in BOOLEAN, v \in ViewArgs :
          LET a == [transformName |-> tn, pixelAmount |-> pa, moveObject |-> mo,
                    rotateView |-> rv, view |-> v]
              e == parseArgsError(a)
          IN  /\ args' = a
              /\ err' = e
              /\ IF e = "none"
                 THEN /\ pc' = "nudge"
                      /\ view' = parseArgsView(a)
                      /\ nudgeCalled' = TRUE
                 ELSE /\ pc' = "raised"
                      /\ view' = ""
                      /\ nudgeCalled' = FALSE
    /\ calls' = calls + 1
    /\ loc' = NoLocals
    /\ trace' = <<>>
    /\ viewReads' = <<>>
    /\ UNCHANGED <<hostVars, viewChanges>>

\* ------------------------------------------------------------------ nudge
\* lines 99-109: camera, eye point, transform point, start direction
NudgeBegin ==
    /\ pc = "nudge"
    /\ LET cameraPoint == pos[CameraName]
           transformPoint == pos[args.transformName]
           d == VSub(transformPoint, cameraPoint)
       IN  loc' = [loc EXCEPT !.cameraPoint = cameraPoint,
                              !.transformPoint = transformPoint,
                              !.pointDist = VLength(d),
                              !.startDirVec = Normalize(d)]
    /\ pc' = "project"
    /\ UNCHANGED <<hostVars, args, view, nudgeCalled, trace, viewReads, err,
                   calls, viewChanges>>

NudgeProjectMut ==
    /\ pc = "project"
    /\ loc' = [loc EXCEPT !.xy = worldToScreen(loc.cameraPoint, loc.transformPoint,
                                               pos[CameraName], views[view])]
    /\ viewReads' = Append(viewReads, views[view])
    /\ chunkDepth' = chunkDepth + 1
    /\ trace' = Append(trace, Cmd("openChunk", "", <<0, 0, 0>>, ""))
    /\ pc' = "solveX"
    /\ UNCHANGED <<pos, camRot, views, locked, args, view, nudgeCalled, err, calls,
                   viewChanges>>

\* lines 111-114
NudgeProject ==
    /\ pc = "project"
    /\ loc' = [loc EXCEPT !.xy = worldToScreen(loc.cameraPoint, loc.transformPoint,
                                               pos[CameraName], views[view])]
    /\ viewReads' = Append(viewReads, views[view])
    /\ pc' = "solveX"
    /\ UNCHANGED <<hostVars, args, view, nudgeCalled, trace, err, calls, viewChanges>>

\* lines 116-119: x + pixelAmount[0] raises TypeError when x is None
NudgeSolveX ==
    /\ pc = "solveX"
    /\ IF ~loc.xy.ok
       THEN /\ pc' = "raised"
            /\ err' = "TypeError"
            /\ UNCHANGED <<loc, viewReads>>
       ELSE /\ loc' = [loc EXCEPT !.xyz_x =
                         screenToWorld(<<loc.xy.x + args.pixelAmount[1] * Scale, loc.xy.y>>,
                                       loc.cameraPoint, loc.pointDist,
                                       pos[CameraName], views[view])]
            /\ viewReads' = Append(viewReads, views[view])
            /\ pc' = "solveY"
            /\ err' = err
    /\ UNCHANGED <<hostVars, args, view, nudgeCalled, trace, calls, viewChanges>>

\* lines 121-124
NudgeSolveY ==
    /\ pc = "solveY"
    /\ loc' = [loc EXCEPT !.xyz_y =
                 screenToWorld(<<loc.xy.x, loc.xy.y + args.pixelAmount[2] * Scale>>,
                               loc.cameraPoint, loc.pointDist,
                               pos[CameraName], views[view])]
    /\ viewReads' = Append(viewReads, views[view])
    /\ pc' = "openChunk"
    /\ UNCHANGED <<hostVars, args, view, nudgeCalled, trace, err, calls, viewChanges>>

\* lines 126-129
NudgeOpenChunk ==
    /\ pc = "openChunk"
    /\ loc' = [loc EXCEPT
                 !.offsetX = VAdd(VSub(loc.xyz_x, loc.transformPoint), loc.transformPoint),
                 !.offsetY = VAdd(VSub(loc.xyz_y, loc.transformPoint), loc.transformPoint)]
    /\ chunkDepth' = chunkDepth + 1
    /\ trace' = Append(trace, Cmd("openChunk", "", <<0, 0, 0>>, ""))
    /\ pc' = "moveX"
    /\ UNCHANGED <<pos, camRot, views, locked, args, view, nudgeCalled, viewReads,
                   err, calls, viewChanges>>

\* cmds.move(..., relative=True): raises on a locked translate
HostMove(node, v, next) ==
    IF <<node, "t">> \in locked
    THEN /\ pc' = "raised"
         /\ err' = "RuntimeError"
         /\ UNCHANGED <<pos, trace>>
    ELSE /\ pos' = [pos EXCEPT ![node] = VAdd(pos[node], v)]
         /\ trace' = Append(trace, Cmd("move", node, v, "relative"))
         /\ pc' = next
         /\ err' = err

MoveXNode == IF args.moveObject THEN args.transformName ELSE CameraName
MoveXAmountMut == loc.offsetY

MoveXAmount == loc.offsetX

\* lines 132-136 / 145-149
NudgeMoveX ==
    /\ pc = "moveX"
    /\ HostMove(MoveXNode, MoveXAmount, "moveY")
    /\ UNCHANGED <<camRot, views, locked, chunkDepth, args, view, nudgeCalled, loc,
                   viewReads, calls, viewChanges>>

MoveYNodeMut == args.transformName

MoveYNode == IF args.moveObject THEN args.transformName ELSE CameraName
MoveYAmount == loc.offsetY

\* lines 131, 157: a rotation follows the moves only in camera mode
RotateWanted == ~args.moveObject /\ args.rotateView

\* lines 138-142 / 151-155
NudgeMoveY ==
    /\ pc = "moveY"
    /\ HostMove(MoveYNode, MoveYAmount, IF RotateWanted THEN "rotate" ELSE "closeChunk")
    /\ UNCHANGED <<camRot, views, locked, chunkDepth, args, view, nudgeCalled, loc,
                   viewReads, calls, viewChanges>>

RotateAnglesMut ==
    LET angleX == AngleDeg(loc.startDirVec, Normalize(VSub(loc.xyz_x, loc.cameraPoint)))
        angleY == AngleDeg(loc.startDirVec, Normalize(VSub(loc.xyz_y, loc.cameraPoint)))
    IN  <<angleY, angleX, 0>>

\* lines 159-165
RotateAngles ==
    LET angleX == AngleDeg(loc.startDirVec, Normalize(VSub(loc.xyz_x, loc.cameraPoint)))
        angleY == -AngleDeg(loc.startDirVec, Normalize(VSub(loc.xyz_y, loc.cameraPoint)))
    IN  <<angleY, angleX, 0>>

\* lines 157-170: cmds.rotate(..., objectSpace=True, relative=True)
NudgeRotate ==
    /\ pc = "rotate"
    /\ IF <<CameraName, "r">> \in locked
       THEN /\ pc' = "raised"
            /\ err' = "RuntimeError"
            /\ UNCHANGED <<camRot, trace>>
       ELSE /\ camRot' = VAdd(camRot, RotateAngles)
            /\ trace' = Append(trace, Cmd("rotate", CameraName, RotateAngles, "objectSpace relative"))
            /\ pc' = "closeChunk"
            /\ err' = err
    /\ UNCHANGED <<pos, views, locked, chunkDepth, args, view, nudgeCalled, loc,
                   viewReads, calls, viewChanges>>

\* line 172
NudgeCloseChunk ==
    /\ pc = "closeChunk"
    /\ chunkDepth' = chunkDepth - 1
    /\ trace' = Append(trace, Cmd("closeChunk", "", <<0, 0, 0>>, ""))
    /\ pc' = "returned"
    /\ UNCHANGED <<pos, camRot, views, locked, args, view, nudgeCalled, loc,
                   viewReads, err, calls, viewChanges>>

\* control is back at the caller, by return or by the exception
Finish ==
    /\ pc \in {"returned", "raised"}
    /\ pc' = "idle"
    /\ UNCHANGED <<hostVars, args, view, nudgeCalled, loc, trace, viewReads, err,
                   calls, viewChanges>>

\* the host resizes a panel; the M3dView handle reads the live viewport
HostViewChange ==
    /\ viewChanges < MaxViewChanges
    /\ \E p \in ModelPanels, vs \in ViewStates :
          /\ vs # views[p]
          /\ views' = [views EXCEPT ![p] = vs]
    /\ viewChanges' = viewChanges + 1
    /\ UNCHANGED <<pos, camRot, locked, chunkDepth, pc, args, view, nudgeCalled, loc,
                   trace, viewReads, err, calls>>

Next ==
    \/ ParseArgs
    \/ NudgeBegin
    \/ NudgeProject
    \/ NudgeSolveX
    \/ NudgeSolveY
    \/ NudgeOpenChunk
    \/ NudgeMoveX
    \/ NudgeMoveY
    \/ NudgeRotate
    \/ NudgeCloseChunk
    \/ Finish
    \/ HostViewChange

Spec == Init /\ [][Next]_vars

\* ------------------------------------------------------------ properties
Mutating(c) == c.op \in {"move", "rotate"}
Count(op) == Cardinality({i \in DOMAIN trace : trace[i].op = op})
Near(a, b) == \A i \in 1..3 : Abs(a[i] - b[i]) <= Tol
Ended == pc \in {"returned", "raised"}
ProjectionFailed == Len(viewReads) >= 1 /\ ~loc.xy.ok

\* C1: all move and rotate commands of one call target one node, the
\* target transform or the camera, never both.
C1_OneNodeMutated ==
    \A i, j \in DOMAIN trace :
        (Mutating(trace[i]) /\ Mutating(trace[j]))
            => /\ trace[i].node = trace[j].node
               /\ trace[i].node \in {args.transformName, CameraName}

C1_Witness ==
    /\ pc = "returned"
    /\ ~args.moveObject /\ args.rotateView
    /\ Count("move") = 2 /\ Count("rotate") = 1

\* C2: when worldToScreen yields no screen position, nudge issues no move
\* or rotate and ends without raising.
C2_ProjectionFailureIsNoOp ==
    ProjectionFailed => (pc # "raised" /\ err = "none" /\ Count("move") = 0
                         /\ Count("rotate") = 0)

\* C3: no call ends, by return or by an exception, with an undo chunk it
\* opened and did not close.
C3_ChunkClosedOnEveryExit ==
    Ended => Count("openChunk") = Count("closeChunk")

\* C4: invalid arguments (empty, missing or non-transform name, a view name
\* that is no model panel) make parseArgs raise at once: nudge is not
\* called, no chunk is opened, nothing is moved or rotated.
InvalidArgs ==
    \/ args.transformName = ""
    \/ args.transformName \notin SceneNodes
    \/ nodeType(args.transformName) # "transform"
    \/ (args.view.type = "str" /\ args.view.val # "" /\ args.view.val \notin ModelPanels)

C4_ValidationAbortsBeforeNudge ==
    (calls > 0 /\ InvalidArgs)
        => /\ pc \in {"raised", "idle"}
           /\ err \in ParseErrors
           /\ ~nudgeCalled
           /\ trace = <<>>
           /\ loc = NoLocals

C4_Witness ==
    /\ pc = "raised"
    /\ args.transformName = "pSphereShape1"
    /\ err = "does not exist or isn't a transform"
    /\ trace = <<>>

\* C5: with pixel offset (0,0) and a round trip that returns the target
\* point, the two relative translations of a call sum to zero.
C5_ZeroOffsetZeroTranslation ==
    (/\ pc = "returned"
     /\ args.pixelAmount = <<0, 0>>
     /\ Near(loc.xyz_x, loc.transformPoint)
     /\ Near(loc.xyz_y, loc.transformPoint))
        => Near(VAdd(trace[2].v, trace[3].v), <<0, 0, 0>>)

\* C6: one call reads the viewport once and all its geometric computations
\* use that one view state.
C6_SingleViewSnapshot ==
    /\ Len(viewReads) <= 1
    /\ \A i, j \in DOMAIN viewReads : viewReads[i] = viewReads[j]

\* C7: with a valid transform, parseArgs calls nudge with the active view
\* when no view is given, and with the given view when it is an M3dView or
\* the name of a model panel.
C7_ViewResolved ==
    (calls > 0 /\ ValidTransform(args.transformName))
        => /\ (args.view.type = "NoneType")
                 => (nudgeCalled /\ view = ActivePanel /\ err \notin ParseErrors)
           /\ (args.view.type = "M3dView"
                  \/ (args.view.type = "str" /\ args.view.val \in ModelPanels))
                 => (nudgeCalled /\ view = args.view.val /\ err \notin ParseErrors)

\* C8: a call that returns has issued, in this order, open chunk, move by
\* offsetX, move by offsetY, at most one rotate, close chunk, and nothing
\* else.
C8_CommandOrder ==
    /\ Count("openChunk") <= 1 /\ Count("closeChunk") <= 1 /\ Count("move") <= 2
    /\ pc = "returned" =>
         LET n == Len(trace)
         IN  /\ n \in {4, 5}
             /\ trace[1].op = "openChunk"
             /\ trace[2].op = "move" /\ trace[2].v = loc.offsetX
             /\ trace[2].mode = "relative"
             /\ trace[3].op = "move" /\ trace[3].v = loc.offsetY
             /\ trace[3].mode = "relative"
             /\ n = 5 => trace[4].op = "rotate"
             /\ trace[n].op = "closeChunk"

C8_Witness ==
    /\ pc = "returned"
    /\ Len(trace) = 5
    /\ loc.offsetX # loc.offsetY

\* C9: a call that returns has rotated exactly when moveObject is false and
\* rotateView is true; a rotation is a single relative object-space
\* rotation of the camera by (angleY, angleX, 0), angleX >= 0, angleY <= 0.
C9_Rotation ==
    /\ Count("rotate") <= 1
    /\ Count("rotate") = 1 => (~args.moveObject /\ args.rotateView)
    /\ pc = "returned" => (Count("rotate") = 1 <=> (~args.moveObject /\ args.rotateView))
    /\ \A i \in DOMAIN trace :
           trace[i].op = "rotate"
               => /\ trace[i].node = CameraName
                  /\ trace[i].mode = "objectSpace relative"
                  /\ trace[i].v[3] = 0
                  /\ trace[i].v[2] >= 0
                  /\ trace[i].v[1] <= 0
                  /\ trace[i].v[2] =
                       AngleDeg(loc.startDirVec, Normalize(VSub(loc.xyz_x, loc.cameraPoint)))

C9_Witness ==
    /\ pc = "returned"
    /\ \E i \in DOMAIN trace :
           trace[i].op = "rotate" /\ trace[i].v[1] < 0 /\ trace[i].v[2] > 0

\* C10: every move and rotate happens inside the open chunk, the chunk is
\* opened only after the projection and both solves, and a call that fails
\* in the projection has opened no chunk and issued no command.
ChunkOpenBefore(i) ==
    \E j \in 1..(i - 1) :
        /\ trace[j].op = "openChunk"
        /\ \A k \in j..(i - 1) : trace[k].op # "closeChunk"

====
